---- MODULE Spec2Model ----
(***************************************************************************)
(* Bill of material table of FreeCAD-Reinforcement:                        *)
(*   src/BillOfMaterial/BOMfunc.py            getBOMScalingFactor, ...     *)
(*   src/BillOfMaterial/BillOfMaterial_SVG.py getColumnOffset,             *)
(*                                            getColumnHeadersSVG,         *)
(*                                            makeBillOfMaterialSVG        *)
(* Python floats are modelled as exact fractions [num, den] with den > 0.  *)
(***************************************************************************)
EXTENDS Integers, Sequences, FiniteSets, TLC

(* ------------------------------ bounds -------------------------------- *)
\* natural table width and height drawn from 1..MaxDim
MaxDim == 2
\* left/top offsets and minimum right/bottom clearances drawn from 0..MaxOff
MaxOff == 1
\* page width and height drawn from 1..MaxPage
MaxPage == 3
\* width and height caps drawn from 0..MaxCap (0 = not configured)
MaxCap == 2
\* column sequence numbers drawn from 0..MaxOrder (0 = hidden)
MaxOrder == 5
\* diameters of the bars: 8, 10, ... (NumDias of them)
NumDias == 2

Diameters == {6 + 2 * i : i \in 1..NumDias}

\* the keys of column_headers (docstring of getColumnOffset)
Keys == {"Mark", "RebarsCount", "Diameter", "RebarLength", "RebarsTotalLength"}

ColumnWidths == {10}

RowHeights == {5}

(* ----------------------------- fractions ------------------------------ *)
\* a / b of two integers, b > 0 (Python true division)
Frac(a, b) == [num |-> a, den |-> b]

FracLE(p, q) == p.num * q.den <= q.num * p.den

FracLT(p, q) == p.num * q.den < q.num * p.den

FracEq(p, q) == p.num * q.den = q.num * p.den

\* Python min(p, q): the first argument unless the second is smaller
FracMin(p, q) == IF FracLT(q, p) THEN q ELSE p

\* a * p, a an integer
FracScale(a, p) == [num |-> a * p.num, den |-> p.den]

\* p / 2 + a and a - p / 2, a an integer
HalfPlus(p, a) == [num |-> p.num + 2 * p.den * a, den |-> 2 * p.den]

MinusHalf(a, p) == [num |-> 2 * p.den * a - p.num, den |-> 2 * p.den]

\* p + q and p - q
FracAdd(p, q) == [num |-> p.num * q.den + q.num * p.den, den |-> p.den * q.den]

FracSub(p, q) == [num |-> p.num * q.den - q.num * p.den, den |-> p.den * q.den]

(* --------------------------- state variables -------------------------- *)
VARIABLES
    pc,                        \* position in makeBillOfMaterialSVG
    bom_width, bom_height,     \* natural size of the table
    bom_left_offset, bom_top_offset,
    bom_min_right_offset, bom_min_bottom_offset,
    bom_table_svg_max_width, bom_table_svg_max_height,
    template_width, template_height,
    scale,                     \* the local flag of getBOMScalingFactor
    scaling_factor,
    bom_content_obj,           \* X, Y, Scale of the TechDraw content object
    column_headers,            \* key -> <<label, sequence number>>
    column_width, row_height,
    diameter_list,             \* result of getUniqueDiameterList
    column_offset,             \* key -> result of getColumnOffset
    column_headers_svg,        \* cells of getColumnHeadersSVG, in order
    mark_reinforcements_dict,  \* mark -> list of reinforcements
    DIA_WEIGHT_MAP,            \* diameter -> weight per length
    dia_total_length_dict,     \* diameter -> accumulated total length
    y_offset,
    bom_rows,                  \* the body rows appended to bom_table_svg
    closing_rectangle,         \* the rectangle drawn after the last row
    bom_data_total_svg,        \* cells of the totals footer, in order
    dict_items,                \* the marks in the dictionary's iteration order
    template_file,             \* what reading the template file yields
    output_file,               \* the output destination and how it behaves
    console,                   \* messages of FreeCAD.Console.PrintError
    written,                   \* what the output file holds after the run
    result,                    \* the value makeBillOfMaterialSVG returns
    base,                      \* rebar.Base given to getRebarSharpEdgedLength
    rebar_sharp_edged_length   \* the value getRebarSharpEdgedLength returns

fitVars == <<bom_left_offset, bom_top_offset, bom_min_right_offset,
             bom_min_bottom_offset, bom_table_svg_max_width,
             bom_table_svg_max_height, template_width, template_height>>

fitOut == <<scale, scaling_factor, bom_content_obj>>

layoutIn == <<column_headers, column_width, row_height>>

layoutVars == <<layoutIn, diameter_list, column_offset, column_headers_svg>>

runVars == <<mark_reinforcements_dict, DIA_WEIGHT_MAP, dia_total_length_dict,
             y_offset, bom_rows, closing_rectangle, bom_data_total_svg>>

fileVars == <<template_file, output_file, console, written, result>>

sharpVars == <<base, rebar_sharp_edged_length>>

vars == <<pc, bom_width, bom_height, fitVars, fitOut, layoutVars, runVars,
          dict_items, fileVars, sharpVars>>

(* ------------------------- getBOMScalingFactor ------------------------ *)
NeedsScaling_nonstrict(bw, bh, lo, to, tw, th, ro, bo, mw, mh) ==
    \/ (tw - bw - lo - ro) <= 0
    \/ (th - bh - to - bo) <= 0
    \/ (mw # 0 /\ mw < bw)
    \/ (mh # 0 /\ mh < bh)

\* the flag "scale" when "if not scale" is reached
NeedsScaling(bw, bh, lo, to, tw, th, ro, bo, mw, mh) ==
    \/ (tw - bw - lo - ro) < 0
    \/ (th - bh - to - bo) < 0
    \/ (mw # 0 /\ mw < bw)
    \/ (mh # 0 /\ mh < bh)

HScalingFactor_nocap(bw, lo, tw, ro, mw) == Frac(tw - lo - ro, bw)

HScalingFactor(bw, lo, tw, ro, mw) ==
    LET h_scaling_factor == Frac(tw - lo - ro, bw)
    IN  IF mw # 0 THEN FracMin(h_scaling_factor, Frac(mw, bw))
                  ELSE h_scaling_factor

VScalingFactor_noclearance(bh, to, th, bo, mh) ==
    LET v_scaling_factor == Frac(th - to, bh)
    IN  IF mh # 0 THEN FracMin(v_scaling_factor, Frac(mh, bh))
                  ELSE v_scaling_factor

VScalingFactor(bh, to, th, bo, mh) ==
    LET v_scaling_factor == Frac(th - to - bo, bh)
    IN  IF mh # 0 THEN FracMin(v_scaling_factor, Frac(mh, bh))
                  ELSE v_scaling_factor

getBOMScalingFactor_always(bw, bh, lo, to, tw, th, ro, bo, mw, mh) ==
    FracMin(HScalingFactor(bw, lo, tw, ro, mw),
            VScalingFactor(bh, to, th, bo, mh))

getBOMScalingFactor(bw, bh, lo, to, tw, th, ro, bo, mw, mh) ==
    IF ~NeedsScaling(bw, bh, lo, to, tw, th, ro, bo, mw, mh)
    THEN Frac(1, 1)
    ELSE FracMin(HScalingFactor(bw, lo, tw, ro, mw),
                 VScalingFactor(bh, to, th, bo, mh))

(* --------------- makeBillOfMaterialSVG: fit and placement ------------- *)
NoFrac == Frac(0, 1)

NoContent == [X |-> NoFrac, Y |-> NoFrac, Scale |-> NoFrac]

\* rebar.Base: a Draft wire ("DWire": it has a Length, maybe a FilletRadius,
\* a Closed flag and the edges of its shape), a sketch ("Sketch": it has
\* Geometry), or another object
Base(kind, length, has_fillet_radius, fillet_radius, closed, edges, geometry) ==
    [kind |-> kind, Length |-> length, hasFilletRadius |-> has_fillet_radius,
     FilletRadius |-> fillet_radius, Closed |-> closed, Edges |-> edges,
     Geometry |-> geometry]

NoBase == Base("Other", 0, FALSE, 0, FALSE, << >>, << >>)

\* the fit calculator has not run
FitOutIdle ==
    /\ scale = FALSE
    /\ scaling_factor = NoFrac
    /\ bom_content_obj = NoContent

\* no table has been built
RunIdle ==
    /\ mark_reinforcements_dict = << >>
    /\ DIA_WEIGHT_MAP = << >>
    /\ dia_total_length_dict = << >>
    /\ y_offset = 0
    /\ bom_rows = << >>
    /\ closing_rectangle = << >>
    /\ bom_data_total_svg = << >>

\* no file has been read or written and nothing has been returned
FilesIdle ==
    /\ template_file = [readable |-> FALSE, text |-> << >>]
    /\ output_file = "None"
    /\ console = << >>
    /\ written = << >>
    /\ result = << >>

\* getRebarSharpEdgedLength has not been called
SharpIdle ==
    /\ base = NoBase
    /\ rebar_sharp_edged_length = NoFrac

\* lines 826-856: the scaling factor, then X, Y and Scale of the content
\* object.  A scaled table of zero width or height divides by zero.
Fit ==
    /\ pc = "measured"
    /\ LET trig == NeedsScaling(bom_width, bom_height, bom_left_offset,
                       bom_top_offset, template_width, template_height,
                       bom_min_right_offset, bom_min_bottom_offset,
                       bom_table_svg_max_width, bom_table_svg_max_height)
       IN  IF trig /\ (bom_width = 0 \/ bom_height = 0)
           THEN /\ pc' = "ZeroDivisionError"
                /\ scale' = trig
                /\ UNCHANGED <<scaling_factor, bom_content_obj>>
           ELSE LET sf == getBOMScalingFactor(bom_width, bom_height,
                              bom_left_offset, bom_top_offset, template_width,
                              template_height, bom_min_right_offset,
                              bom_min_bottom_offset, bom_table_svg_max_width,
                              bom_table_svg_max_height)
                IN  /\ pc' = "placed"
                    /\ scale' = trig
                    /\ scaling_factor' = sf
                    /\ bom_content_obj' =
                         [X |-> HalfPlus(FracScale(bom_width, sf),
                                         bom_left_offset),
                          Y |-> FracSub(
                                  MinusHalf(template_height,
                                            FracScale(bom_height, sf)),
                                  Frac(bom_top_offset, 1)),
                          Scale |-> sf]
    /\ UNCHANGED <<dict_items, fileVars, sharpVars>>
    /\ UNCHANGED <<bom_width, bom_height, fitVars, layoutVars, runVars>>

\* the fit calculator on every table size, page, offset and cap in the bounds
FitInit ==
    /\ pc = "measured"
    /\ bom_width \in 1..MaxDim
    /\ bom_height \in 1..MaxDim
    /\ bom_left_offset \in 0..MaxOff
    /\ bom_top_offset \in 0..MaxOff
    /\ bom_min_right_offset \in 0..MaxOff
    /\ bom_min_bottom_offset \in 0..MaxOff
    /\ bom_table_svg_max_width \in 0..MaxCap
    /\ bom_table_svg_max_height \in 0..MaxCap
    /\ template_width \in 1..MaxPage
    /\ template_height \in 1..MaxPage
    /\ FitOutIdle
    /\ column_headers = << >>
    /\ column_width = 0
    /\ row_height = 0
    /\ diameter_list = << >>
    /\ column_offset = << >>
    /\ column_headers_svg = << >>
    /\ RunIdle
    /\ dict_items = << >>
    /\ FilesIdle
    /\ SharpIdle

FitNext == Fit

FitSpec == FitInit /\ [][FitNext]_vars

(* ====================== fit calculator: properties ==================== *)
One == Frac(1, 1)

\* free room left on each axis by the unscaled table
SlackW == template_width - bom_width - bom_left_offset - bom_min_right_offset

SlackH == template_height - bom_height - bom_top_offset - bom_min_bottom_offset

CapsAllow ==
    /\ (bom_table_svg_max_width # 0 => bom_table_svg_max_width >= bom_width)
    /\ (bom_table_svg_max_height # 0 => bom_table_svg_max_height >= bom_height)

ScaledWidth == FracScale(bom_width, scaling_factor)

ScaledHeight == FracScale(bom_height, scaling_factor)

HalfOf(p) == [num |-> p.num, den |-> 2 * p.den]

\* C1: a table that fits (slack >= 0 on both axes, every configured cap >=
\* the natural size) is not scaled and gets exactly 1; the overflow test is
\* strict: slack 0 does not set the flag, slack < 0 on either axis does.
C1_FitsMeansScaleOne ==
    pc = "placed" =>
        /\ (SlackW >= 0 /\ SlackH >= 0 /\ CapsAllow)
              => (scaling_factor = One /\ ~scale)
        /\ (SlackW < 0 \/ SlackH < 0) => scale

C1_Witness ==
    /\ pc = "placed"
    /\ SlackW = 0 /\ SlackH >= 0
    /\ bom_table_svg_max_width = bom_width
    /\ bom_table_svg_max_height = 0
    /\ scaling_factor = One

\* C2: the fitted table lies inside the margins and the caps, its left edge
\* at the left offset, its top edge at the top offset (page height minus
\* top offset in page coordinates), right and bottom clearances respected.
C2_FittedTableInsidePage ==
    pc = "placed" =>
        LET X == bom_content_obj.X
            Y == bom_content_obj.Y
            hw == HalfOf(ScaledWidth)
            hh == HalfOf(ScaledHeight)
        IN  /\ FracLE(ScaledWidth, Frac(template_width - bom_left_offset
                                         - bom_min_right_offset, 1))
            /\ FracLE(ScaledHeight, Frac(template_height - bom_top_offset
                                          - bom_min_bottom_offset, 1))
            /\ bom_table_svg_max_width # 0
                 => FracLE(ScaledWidth, Frac(bom_table_svg_max_width, 1))
            /\ bom_table_svg_max_height # 0
                 => FracLE(ScaledHeight, Frac(bom_table_svg_max_height, 1))
            /\ FracEq(FracSub(X, hw), Frac(bom_left_offset, 1))
            /\ FracLE(FracAdd(X, hw),
                      Frac(template_width - bom_min_right_offset, 1))
            /\ FracEq(FracAdd(Y, hh),
                      Frac(template_height - bom_top_offset, 1))
            /\ FracLE(Frac(bom_min_bottom_offset, 1), FracSub(Y, hh))

C2_Witness ==
    /\ pc = "placed"
    /\ SlackH < 0 /\ SlackW >= 0
    /\ bom_min_bottom_offset > 0 /\ bom_top_offset > 0
    /\ FracLT(Frac(0, 1), scaling_factor)
    /\ FracEq(FracSub(bom_content_obj.Y, HalfOf(ScaledHeight)),
              Frac(bom_min_bottom_offset, 1))

\* C3: the factor never exceeds 1, whichever condition triggered scaling,
\* and the content object's Scale is that same single factor.
C3_NeverUpscaled ==
    pc = "placed" =>
        /\ FracLE(scaling_factor, One)
        /\ bom_content_obj.Scale = scaling_factor

C3_Witness ==
    /\ pc = "placed"
    /\ SlackW > 0 /\ SlackH > 0
    /\ bom_table_svg_max_width # 0 /\ bom_table_svg_max_width < bom_width
    /\ scale
    /\ FracLT(bom_content_obj.Scale, One)

\* C4: the factor lies in (0, 1] for every input with positive natural size
\* and non-negative offsets, clearances and caps.
C4_ScalePositive ==
    pc = "placed" =>
        /\ FracLT(Frac(0, 1), scaling_factor)
        /\ FracLE(scaling_factor, One)

\* C5: when scaling is triggered the factor is the least of the horizontal
\* bound, the vertical bound and the configured cap ratios.
C5Bounds ==
    {Frac(template_width - bom_left_offset - bom_min_right_offset, bom_width),
     Frac(template_height - bom_top_offset - bom_min_bottom_offset, bom_height)}
    \cup (IF bom_table_svg_max_width # 0
          THEN {Frac(bom_table_svg_max_width, bom_width)} ELSE {})
    \cup (IF bom_table_svg_max_height # 0
          THEN {Frac(bom_table_svg_max_height, bom_height)} ELSE {})

C5_TighterAxisBinds ==
    (pc = "placed" /\ scale) =>
        /\ \A b \in C5Bounds : FracLE(scaling_factor, b)
        /\ \E b \in C5Bounds : FracEq(scaling_factor, b)

C5_Witness ==
    /\ pc = "placed" /\ scale
    /\ bom_table_svg_max_width # 0
    /\ FracEq(scaling_factor, Frac(bom_table_svg_max_width, bom_width))
    /\ FracLT(scaling_factor,
              Frac(template_width - bom_left_offset - bom_min_right_offset,
                   bom_width))
    /\ FracLT(scaling_factor,
              Frac(template_height - bom_top_offset - bom_min_bottom_offset,
                   bom_height))

(* ============================ column layout =========================== *)
Aggregate == "RebarsTotalLength"

\* column_headers[k][1] in Python: the sequence number of column k
Order(ch, k) == ch[k][2]

\* column_headers[k][0] in Python: the label of column k
Label(ch, k) == ch[k][1]

getColumnOffset_noshift(ch, dl, column_header, cw) ==
    cw * (Order(ch, column_header) - 1)

\* getColumnOffset(column_headers, diameter_list, column_header, column_width)
getColumnOffset(ch, dl, column_header, cw) ==
    LET seq == Order(ch, column_header)
        shifted == IF /\ Aggregate \in DOMAIN ch
                      /\ Order(ch, Aggregate) < seq
                      /\ Len(dl) # 0
                   THEN seq + Len(dl) - 1 ELSE seq
    IN  cw * (shifted - 1)

\* the data of a cell: a text, or a number (a quantity before it is
\* formatted for display)
Text(t) == [text |-> t, value |-> 0]

Num(v) == [text |-> "", value |-> v]

\* getSVGDataCell and getSVGRectangle: a bordered cell with its data, and an
\* empty bordered rectangle; column names the column the cell is drawn for
DataCell(col, data, x, y, w, h) ==
    [kind |-> "cell", column |-> col, data |-> data,
     x |-> x, y |-> y, width |-> w, height |-> h]

Rectangle(col, x, y, w, h) ==
    [kind |-> "rect", column |-> col, data |-> Text(""),
     x |-> x, y |-> y, width |-> w, height |-> h]

\* "Delete hidden headers": the keys whose sequence number is not 0
VisibleKeys(ch) == {k \in DOMAIN ch : Order(ch, k) # 0}

\* sorted(column_headers, key=order) restricted to the key set ks
RECURSIVE SortedByOrder(_, _)
SortedByOrder(ch, ks) ==
    IF ks = {} THEN << >>
    ELSE LET k == CHOOSE c \in ks : \A d \in ks : Order(ch, c) <= Order(ch, d)
         IN  <<k>> \o SortedByOrder(ch, ks \ {k})

\* the diameter sub-headers: one cell per diameter, one column-width apart
RECURSIVE DiaHeaders(_, _, _, _, _, _)
DiaHeaders(dl, i, x, y, cw, rh) ==
    IF i > Len(dl) THEN << >>
    ELSE <<DataCell(Aggregate, [text |-> "#", value |-> dl[i]], x, y + rh,
                        cw, rh)>>
         \o DiaHeaders(dl, i + 1, x + cw, y, cw, rh)

\* the loop of getColumnHeadersSVG over the sorted visible columns, with the
\* running column_offset x
RECURSIVE HeaderLoop(_, _, _, _, _, _, _, _)
HeaderLoop(ch, keys, dl, x, y, cw, rh, height) ==
    IF keys = << >> THEN << >>
    ELSE LET k == Head(keys)
         IN  IF k # Aggregate
             THEN <<DataCell(k, Text(Label(ch, k)), x, y, cw, height)>>
                  \o HeaderLoop(ch, Tail(keys), dl, x + cw, y, cw, rh, height)
             ELSE <<DataCell(k, Text(Label(ch, k)), x, y, cw * Len(dl), rh)>>
                  \o DiaHeaders(dl, 1, x, y, cw, rh)
                  \o HeaderLoop(ch, Tail(keys), dl, x + cw * Len(dl), y, cw,
                                rh, height)

\* getColumnHeadersSVG(column_headers, diameter_list, _, y_offset,
\*                     column_width, row_height, _, _)
getColumnHeadersSVG(ch, dl, y, cw, rh) ==
    LET vis == VisibleKeys(ch)
        height == IF Aggregate \in vis THEN 2 * rh ELSE rh
    IN  HeaderLoop(ch, SortedByOrder(ch, vis), dl, 0, y, cw, rh, height)

\* every column spec: a subset of the keys, each with a sequence number in
\* 0..MaxOrder, the non-zero ones pairwise distinct
AllColumnSpecs ==
    UNION {
      {[k \in S |-> <<k, f[k]>>] :
          f \in {g \in [S -> 0..MaxOrder] :
                    \A k1, k2 \in S :
                        (k1 # k2 /\ g[k1] # 0) => g[k1] # g[k2]}}
      : S \in (SUBSET Keys) \ {{}} }

\* ascending sequence of the elements of a set of numbers
RECURSIVE Ascending(_)
Ascending(S) ==
    IF S = {} THEN << >>
    ELSE LET m == CHOOSE a \in S : \A b \in S : a <= b
         IN  <<m>> \o Ascending(S \ {m})

\* every DiameterSet: ascending, no duplicates
AllDiameterLists == {Ascending(S) : S \in SUBSET Diameters}

\* the layout resolver on every column spec and DiameterSet in the bounds
LayoutInit ==
    /\ pc = "layout"
    /\ column_headers \in AllColumnSpecs
    /\ diameter_list \in AllDiameterLists
    /\ column_width \in ColumnWidths
    /\ row_height \in RowHeights
    /\ column_offset = << >>
    /\ column_headers_svg = << >>
    /\ bom_width = 0 /\ bom_height = 0
    /\ bom_left_offset = 0 /\ bom_top_offset = 0
    /\ bom_min_right_offset = 0 /\ bom_min_bottom_offset = 0
    /\ bom_table_svg_max_width = 0 /\ bom_table_svg_max_height = 0
    /\ template_width = 0 /\ template_height = 0
    /\ FitOutIdle
    /\ RunIdle
    /\ dict_items = << >>
    /\ FilesIdle
    /\ SharpIdle

\* the header band and the left offset of every column of the spec, as
\* makeBillOfMaterialSVG asks for them ("if key in column_headers")
ResolveLayout ==
    /\ pc = "layout"
    /\ pc' = "resolved"
    /\ column_headers_svg' = getColumnHeadersSVG(column_headers, diameter_list,
                                 0, column_width, row_height)
    /\ column_offset' = [k \in DOMAIN column_headers |->
                            getColumnOffset(column_headers, diameter_list, k,
                                            column_width)]
    /\ UNCHANGED <<dict_items, fileVars, sharpVars>>
    /\ UNCHANGED <<layoutIn, diameter_list, bom_width, bom_height, fitVars,
                   fitOut, runVars>>

LayoutNext == ResolveLayout

LayoutSpec == LayoutInit /\ [][LayoutNext]_vars

(* ======================= column layout: properties ==================== *)
\* width of a column: column_width, or column_width * |DiameterSet| for the
\* aggregate column
ColWidth(k) ==
    IF k = Aggregate THEN column_width * Len(diameter_list) ELSE column_width

\* C8: visible columns never overlap: for orders o1 < o2 the later column
\* starts at or after the end of the earlier one.
C8_ColumnsDoNotOverlap ==
    pc = "resolved" =>
        \A k1, k2 \in VisibleKeys(column_headers) :
            Order(column_headers, k1) < Order(column_headers, k2)
                => column_offset[k2] >= column_offset[k1] + ColWidth(k1)

C8_Witness ==
    /\ pc = "resolved"
    /\ Len(diameter_list) = 2
    /\ Aggregate \in VisibleKeys(column_headers)
    /\ \E k1, k2 \in VisibleKeys(column_headers) :
          /\ Order(column_headers, k1) < Order(column_headers, Aggregate)
          /\ Order(column_headers, Aggregate) < Order(column_headers, k2)
          /\ column_offset[Aggregate] = column_offset[k1] + ColWidth(k1)
          /\ column_offset[k2] >= column_offset[Aggregate] + ColWidth(Aggregate)

\* C10 (second clause): when the aggregate column is hidden (order 0) or
\* absent, every visible column's offset is column_width * (order - 1).
C10_HiddenAggregateNoShift ==
    (pc = "resolved"
        /\ (Aggregate \notin DOMAIN column_headers
            \/ Order(column_headers, Aggregate) = 0))
    => \A k \in VisibleKeys(column_headers) :
          column_offset[k] = column_width * (Order(column_headers, k) - 1)

(* ========================= makeBillOfMaterialSVG ====================== *)
\* marks drawn from 1..MaxMarks
MaxMarks == 2

\* authored length of a bar, and the Amount of each reinforcement of a mark
RebarLengths == {3}

AmountLists == {<<1>>, <<2, 1>>}

BaseRebars == [Diameter : Diameters, Length : RebarLengths]

\* the reinforcements of one mark (here they share their base rebar)
Groups ==
    {[i \in 1..Len(al) |-> [Amount |-> al[i], BaseRebar |-> b]] :
        al \in AmountLists, b \in BaseRebars}

\* every result of getMarkReinforcementsDict within the bounds
AllMarkDicts == UNION {[M -> Groups] : M \in SUBSET (1..MaxMarks)}

\* diameter -> weight tables: empty, or a weight for the smallest diameter
WeightTables == {[d \in W |-> 4] : W \in {{}, {8}}}

\* the four ordinary columns in the order of the documented example
Ordinary == <<"Mark", "RebarsCount", "Diameter", "RebarLength">>

Range(seq) == {seq[i] : i \in 1..Len(seq)}

Without(seq, d) == SelectSeq(seq, LAMBDA k : k # d)

\* first position of e in seq (list.index, counted from 1)
IndexOf(seq, e) ==
    CHOOSE i \in 1..Len(seq) :
        seq[i] = e /\ \A j \in 1..(i - 1) : seq[j] # e

\* a column spec: the ordinary columns vis visible in this order, the keys
\* in hidden present with sequence number 0, and the aggregate column
\* absent (p = -1), hidden (p = 0) or visible at position p
ColumnSpec(vis, hidden, p) ==
    [k \in Range(vis) \cup hidden \cup (IF p >= 0 THEN {Aggregate} ELSE {}) |->
        <<k, IF k = Aggregate THEN p
             ELSE IF k \in hidden THEN 0
             ELSE IF p >= 1 /\ IndexOf(vis, k) >= p
                  THEN IndexOf(vis, k) + 1
                  ELSE IndexOf(vis, k)>>]

\* the documented example spec with the aggregate column moved, hidden or
\* removed and at most one ordinary column hidden or removed
RunColumnSpecs ==
    UNION {
      {ColumnSpec(Without(Ordinary, d),
                  IF hide /\ d # "none" THEN {d} ELSE {}, p) :
          p \in (-1)..(Len(Without(Ordinary, d)) + 1)}
      : d \in Range(Ordinary) \cup {"none"}, hide \in BOOLEAN }

(* ------------------------ getUniqueDiameterList ----------------------- *)
Contains(seq, e) == \E i \in 1..Len(seq) : seq[i] = e

\* the loop over mark_reinforcements_dict.items(), items the marks in the
\* dictionary's iteration order
RECURSIVE UniqueDiameters(_, _, _)
UniqueDiameters(dict, items, dia_list) ==
    IF items = << >> THEN dia_list
    ELSE LET diameter == dict[Head(items)][1].BaseRebar.Diameter
         IN  UniqueDiameters(dict, Tail(items),
                 IF Contains(dia_list, diameter)
                 THEN dia_list
                 ELSE Append(dia_list, diameter))

\* list.sort(): insertion of e into an ascending list, then the sort
RECURSIVE InsertSorted(_, _)
InsertSorted(seq, e) ==
    IF seq = << >> THEN <<e>>
    ELSE IF e <= Head(seq) THEN <<e>> \o seq
    ELSE <<Head(seq)>> \o InsertSorted(Tail(seq), e)

RECURSIVE SortList(_)
SortList(seq) ==
    IF seq = << >> THEN << >>
    ELSE InsertSorted(SortList(Tail(seq)), Head(seq))

getUniqueDiameterList_unsorted(dict, items) ==
    UniqueDiameters(dict, items, << >>)

getUniqueDiameterList(dict, items) ==
    SortList(UniqueDiameters(dict, items, << >>))

RECURSIVE Reverse(_)
Reverse(seq) ==
    IF seq = << >> THEN << >> ELSE Append(Reverse(Tail(seq)), Head(seq))

\* iteration order of the dictionary: the order in which the document
\* lists the objects (here by descending mark)
DictItems(dict) == Reverse(Ascending(DOMAIN dict))

\* the reinforcements of one mark when each has a base rebar of its own:
\* one or two reinforcements, any diameter each
EntryCounts == {1, 2}

DiaGroups ==
    UNION {[1..n -> [Amount : {1}, BaseRebar : BaseRebars]] : n \in EntryCounts}

DiaMarkDicts == UNION {[M -> DiaGroups] : M \in SUBSET (1..MaxMarks)}

\* every order in which a dictionary with the key set S can list its keys
Orders(S) ==
    {o \in [1..Cardinality(S) -> S] :
        \A i, j \in 1..Cardinality(S) : i # j => o[i] # o[j]}

\* getUniqueDiameterList on every dictionary and iteration order in the bounds
DiaInit ==
    /\ pc = "collect"
    /\ mark_reinforcements_dict \in DiaMarkDicts
    /\ dict_items \in Orders(DOMAIN mark_reinforcements_dict)
    /\ diameter_list = << >>
    /\ DIA_WEIGHT_MAP = << >>
    /\ dia_total_length_dict = << >>
    /\ y_offset = 0
    /\ bom_rows = << >>
    /\ closing_rectangle = << >>
    /\ bom_data_total_svg = << >>
    /\ column_headers = << >>
    /\ column_width = 0
    /\ row_height = 0
    /\ column_offset = << >>
    /\ column_headers_svg = << >>
    /\ bom_width = 0 /\ bom_height = 0
    /\ bom_left_offset = 0 /\ bom_top_offset = 0
    /\ bom_min_right_offset = 0 /\ bom_min_bottom_offset = 0
    /\ bom_table_svg_max_width = 0 /\ bom_table_svg_max_height = 0
    /\ template_width = 0 /\ template_height = 0
    /\ FitOutIdle
    /\ FilesIdle
    /\ SharpIdle

\* line 299: diameter_list = getUniqueDiameterList(mark_reinforcements_dict)
CollectDiameters ==
    /\ pc = "collect"
    /\ pc' = "collected"
    /\ diameter_list' =
         getUniqueDiameterList(mark_reinforcements_dict, dict_items)
    /\ UNCHANGED <<bom_width, bom_height, fitVars, fitOut, layoutIn,
                   column_offset, column_headers_svg, runVars, dict_items,
                   fileVars, sharpVars>>

DiaNext == CollectDiameters

DiaSpec == DiaInit /\ [][DiaNext]_vars

\* diameter of the first reinforcement of mark m
FirstDiameter(m) == mark_reinforcements_dict[m][1].BaseRebar.Diameter

\* C16: for every dictionary and every iteration order the diameter list is
\* strictly ascending (so without duplicates) and holds exactly the
\* diameters of the first reinforcement of each mark.
C16_DiametersAscendingExact ==
    pc = "collected" =>
        /\ \A i, j \in 1..Len(diameter_list) :
              i < j => diameter_list[i] < diameter_list[j]
        /\ Range(diameter_list)
             = {FirstDiameter(m) : m \in DOMAIN mark_reinforcements_dict}

\* two marks listed with the larger first diameter first; one of them has a
\* second reinforcement of another diameter
C16_Witness ==
    /\ pc = "collected"
    /\ Len(dict_items) = 2
    /\ FirstDiameter(dict_items[1]) > FirstDiameter(dict_items[2])
    /\ \E m \in DOMAIN mark_reinforcements_dict :
          /\ Len(mark_reinforcements_dict[m]) = 2
          /\ mark_reinforcements_dict[m][2].BaseRebar.Diameter
               # FirstDiameter(m)
    /\ diameter_list
         = <<FirstDiameter(dict_items[2]), FirstDiameter(dict_items[1])>>

(* ------------------------------ body rows ----------------------------- *)
\* y_offset after the header: two row-heights if the aggregate key is in
\* column_headers, one otherwise
BodyStart_visible(ch, rh) ==
    IF Aggregate \in VisibleKeys(ch) THEN 2 * rh ELSE rh

BodyStart(ch, rh) == IF Aggregate \in DOMAIN ch THEN 2 * rh ELSE rh

\* rebars_count: the sum of the Amounts of the reinforcements of a mark
RECURSIVE RebarsCount(_)
RebarsCount(group) ==
    IF group = << >> THEN 0
    ELSE Head(group).Amount + RebarsCount(Tail(group))

\* base_rebar_length (rebar_length_type "RealLength"): the authored length
\* if the RebarLength key is in column_headers, else the initial 0 mm
BaseRebarLength(ch, base_rebar) ==
    IF "RebarLength" \in DOMAIN ch THEN base_rebar.Length ELSE 0

\* rebar_total_length: sum over the reinforcements of Amount * length
RECURSIVE RebarTotalLength(_, _)
RebarTotalLength(group, base_rebar_length) ==
    IF group = << >> THEN 0
    ELSE Head(group).Amount * base_rebar_length
         + RebarTotalLength(Tail(group), base_rebar_length)

Accumulate_overwrite(totals, dia, rebar_total_length) ==
    [totals EXCEPT ![dia] = rebar_total_length]

\* dia_total_length_dict[base_rebar.Diameter.Value] += rebar_total_length
Accumulate(totals, dia, rebar_total_length) ==
    [totals EXCEPT ![dia] = @ + rebar_total_length]

\* the cell of an ordinary column of a row, if its key is in column_headers
OrdinaryCell(ch, dl, k, data, y, cw, rh) ==
    IF k \in DOMAIN ch
    THEN <<DataCell(k, data, getColumnOffset(ch, dl, k, cw), y, cw, rh)>>
    ELSE << >>

AggregateCells_noplaceholder(ch, dl, base_dia, rebar_total_length, y, cw, rh) ==
    IF Aggregate \notin DOMAIN ch THEN << >>
    ELSE LET off == getColumnOffset(ch, dl, Aggregate, cw)
         IN  SelectSeq([i \in 1..Len(dl) |->
                          DataCell(Aggregate, Num(rebar_total_length),
                                   off + (i - 1) * cw, y, cw, rh)],
                       LAMBDA c : c.x = off + (IndexOf(dl, base_dia) - 1) * cw)

\* the aggregate sub-cells of a row: the total under the row's diameter, an
\* empty rectangle under every other diameter
AggregateCells(ch, dl, base_dia, rebar_total_length, y, cw, rh) ==
    IF Aggregate \notin DOMAIN ch THEN << >>
    ELSE LET off == getColumnOffset(ch, dl, Aggregate, cw)
         IN  [i \in 1..Len(dl) |->
                IF dl[i] = base_dia
                THEN DataCell(Aggregate, Num(rebar_total_length),
                              off + (IndexOf(dl, dl[i]) - 1) * cw, y, cw, rh)
                ELSE Rectangle(Aggregate,
                               off + (IndexOf(dl, dl[i]) - 1) * cw, y, cw, rh)]

\* the cells of the row of one mark, in the order they are appended
RowCells(ch, dl, mark_number, group, y, cw, rh) ==
    LET base_rebar == group[1].BaseRebar
        base_rebar_length == BaseRebarLength(ch, base_rebar)
    IN  OrdinaryCell(ch, dl, "Mark", Num(mark_number), y, cw, rh)
        \o OrdinaryCell(ch, dl, "RebarsCount", Num(RebarsCount(group)),
                        y, cw, rh)
        \o OrdinaryCell(ch, dl, "Diameter", Num(base_rebar.Diameter),
                        y, cw, rh)
        \o OrdinaryCell(ch, dl, "RebarLength", Num(base_rebar_length),
                        y, cw, rh)
        \o AggregateCells(ch, dl, base_rebar.Diameter,
                          RebarTotalLength(group, base_rebar_length),
                          y, cw, rh)

(* --------------------------- totals footer ---------------------------- *)
\* column_units names a unit for every column, so the captions' lookup of
\* column_units["RebarsTotalLength"] succeeds
\* bom_width and the width of the closing rectangle
TableWidth(ch, dl, cw) == cw * (Cardinality(DOMAIN ch) + Len(dl) - 1)

\* the three captions, at x with the given width
Captions(x, y, width, rh) ==
    <<DataCell("caption", Text("Total length"), x, y, width, rh),
      DataCell("caption", Text("Weight"), x, y + rh, width, rh),
      DataCell("caption", Text("Total Weight"), x, y + 2 * rh, width, rh)>>

\* the footer cells of diameter number i at x: total length, then weight
\* per length and total weight, or what the layout draws when the diameter
\* has no weight (missing)
DiaTotals(dl, i, totals, weights, x, y, cw, rh, missing) ==
    <<DataCell(Aggregate, Num(totals[dl[i]]), x, y, cw, rh)>>
    \o (IF dl[i] \in DOMAIN weights
        THEN <<DataCell(Aggregate, Num(weights[dl[i]]), x, y + rh, cw, rh),
               DataCell(Aggregate, Num(weights[dl[i]] * totals[dl[i]]),
                        x, y + 2 * rh, cw, rh)>>
        ELSE missing)

RECURSIVE Concat(_)
Concat(seqs) ==
    IF seqs = << >> THEN << >> ELSE Head(seqs) \o Concat(Tail(seqs))

\* the empty cells of the columns after the aggregate column:
\* range(len(column_headers) - order of the aggregate column) columns
RemainingColumns(ch, dl, y, cw, rh) ==
    LET n == Cardinality(DOMAIN ch) - Order(ch, Aggregate)
    IN  Concat([remColumn \in 1..(IF n > 0 THEN n ELSE 0) |->
            LET x == (Order(ch, Aggregate) + Len(dl) - 1 + (remColumn - 1))
                     * cw
            IN  [row \in 1..3 |-> Rectangle("", x, y + (row - 1) * rh, cw, rh)]])

\* aggregate column not at sequence number 1: captions on the left, values
\* from the aggregate column's offset, empty cells after them
FooterNotLeftmost(ch, dl, totals, weights, y, cw, rh) ==
    LET off == getColumnOffset(ch, dl, Aggregate, cw)
    IN  Captions(0, y, off, rh)
        \o Concat([i \in 1..Len(dl) |->
              DiaTotals(dl, i, totals, weights, off + (i - 1) * cw, y, cw, rh,
                        <<Rectangle(Aggregate, off + (i - 1) * cw, y + rh,
                                    cw, rh),
                          Rectangle(Aggregate, off + (i - 1) * cw, y + 2 * rh,
                                    cw, rh)>>)])
        \o RemainingColumns(ch, dl, y, cw, rh)

\* aggregate column at sequence number 1: values first, captions after them
FooterLeftmost(ch, dl, totals, weights, y, cw, rh) ==
    Concat([i \in 1..Len(dl) |->
        DiaTotals(dl, i, totals, weights, (i - 1) * cw, y, cw, rh, << >>)])
    \o Captions(Len(dl) * cw, y, cw * (Cardinality(DOMAIN ch) - 1), rh)

\* bom_data_total_svg: empty unless the aggregate key is in column_headers
TotalsFooter(ch, dl, totals, weights, y, cw, rh) ==
    IF Aggregate \notin DOMAIN ch THEN << >>
    ELSE IF Order(ch, Aggregate) # 1
         THEN FooterNotLeftmost(ch, dl, totals, weights, y, cw, rh)
         ELSE FooterLeftmost(ch, dl, totals, weights, y, cw, rh)

(* ------------------------------ actions ------------------------------- *)
\* lines 298-336: DiameterSet, header band, empty accumulator, body start
Start ==
    /\ pc = "start"
    /\ pc' = "rows"
    /\ LET dl == getUniqueDiameterList(mark_reinforcements_dict, dict_items)
       IN  /\ diameter_list' = dl
           /\ column_headers_svg' =
                getColumnHeadersSVG(column_headers, dl, 0, column_width,
                                    row_height)
           /\ dia_total_length_dict' = [d \in Range(dl) |-> 0]
    /\ y_offset' = BodyStart(column_headers, row_height)
    /\ UNCHANGED <<dict_items, fileVars, sharpVars>>
    /\ UNCHANGED <<layoutIn, column_offset, mark_reinforcements_dict,
                   DIA_WEIGHT_MAP, bom_rows, closing_rectangle,
                   bom_data_total_svg, bom_width, bom_height, fitVars, fitOut>>

\* lines 338-516: one pass of the loop over sorted(mark_reinforcements_dict)
Row ==
    /\ pc = "rows"
    /\ Len(bom_rows) < Cardinality(DOMAIN mark_reinforcements_dict)
    /\ LET mark_number ==
               Ascending(DOMAIN mark_reinforcements_dict)[Len(bom_rows) + 1]
           group == mark_reinforcements_dict[mark_number]
           base_rebar == group[1].BaseRebar
           rebar_total_length ==
               RebarTotalLength(group,
                                BaseRebarLength(column_headers, base_rebar))
       IN  IF base_rebar.Diameter \notin DOMAIN dia_total_length_dict
           THEN /\ pc' = "KeyError"
                /\ UNCHANGED <<dia_total_length_dict, bom_rows, y_offset>>
           ELSE /\ pc' = "rows"
                /\ dia_total_length_dict' =
                     Accumulate(dia_total_length_dict, base_rebar.Diameter,
                                rebar_total_length)
                /\ bom_rows' = Append(bom_rows,
                     [id |-> Len(bom_rows) + 1,
                      mark |-> mark_number,
                      diameter |-> base_rebar.Diameter,
                      rebar_total_length |-> rebar_total_length,
                      y |-> y_offset,
                      cells |-> RowCells(column_headers, diameter_list,
                                         mark_number, group, y_offset,
                                         column_width, row_height)])
                /\ y_offset' = y_offset + row_height
    /\ UNCHANGED <<dict_items, fileVars, sharpVars>>
    /\ UNCHANGED <<layoutVars, mark_reinforcements_dict, DIA_WEIGHT_MAP,
                   closing_rectangle, bom_data_total_svg, bom_width,
                   bom_height, fitVars, fitOut>>

\* lines 518-824: closing rectangle, totals footer, natural size
Footer ==
    /\ pc = "rows"
    /\ Len(bom_rows) = Cardinality(DOMAIN mark_reinforcements_dict)
    /\ pc' = "measured"
    /\ closing_rectangle' =
         <<Rectangle("", 0, y_offset,
                     TableWidth(column_headers, diameter_list, column_width),
                     row_height)>>
    /\ bom_data_total_svg' =
         TotalsFooter(column_headers, diameter_list, dia_total_length_dict,
                      DIA_WEIGHT_MAP, y_offset + row_height, column_width,
                      row_height)
    /\ y_offset' = y_offset + row_height + 3 * row_height
    /\ bom_height' = y_offset'
    /\ bom_width' = TableWidth(column_headers, diameter_list, column_width)
    /\ UNCHANGED <<dict_items, fileVars, sharpVars>>
    /\ UNCHANGED <<layoutVars, mark_reinforcements_dict, DIA_WEIGHT_MAP,
                   dia_total_length_dict, bom_rows, fitVars, fitOut>>

(* ------------------------- document assembly -------------------------- *)
\* a piece of markup: its root element, whether it starts with an XML
\* declaration, the transform attribute of the root, and its size
Markup(root, declaration, transform, size) ==
    [root |-> root, declaration |-> declaration, transform |-> transform,
     size |-> size]

\* the placeholder of the page template
DrawingContent == Markup("<!-- DrawingContent -->", FALSE, << >>, << >>)

\* a page template with the placeholder, and one without it
Page == <<Markup("page", TRUE, << >>, << >>), DrawingContent>>

PageWithoutMarker == <<Markup("page", TRUE, << >>, << >>)>>

\* what open(template_file, "r") and read() yield: the file cannot be read,
\* or it is read and holds this text
Unreadable == [readable |-> FALSE, text |-> << >>]

TemplateFiles ==
    {Unreadable} \cup
    {[readable |-> TRUE, text |-> t] : t \in {<< >>, Page, PageWithoutMarker}}

\* the output destination: None, a file that can be written, a path that
\* open() refuses, a file whose write() fails
OutputFiles == {"None", "writable", "open fails", "write fails"}

\* template_svg.replace("<!-- DrawingContent -->", bom_svg)
Replace(text, bom_svg) ==
    [i \in DOMAIN text |-> IF text[i] = DrawingContent THEN bom_svg
                           ELSE text[i]]

\* line 818: the pretty-printed svg root with the table's width and height
SvgOutput(bw, bh) == Markup("svg", TRUE, << >>, <<bw, bh>>)

\* lines 869-887: the pretty-printed table group on its own, or the template
\* with the placeholder replaced by the group, transform set and XML
\* declaration stripped
SvgSheet(template_svg, lo, to, sf) ==
    IF template_svg # << >>
    THEN Replace(template_svg, Markup("g", FALSE, <<lo, to, sf>>, << >>))
    ELSE <<Markup("g", TRUE, << >>, << >>)>>

ReadError == "Error reading template file"

WriteError == "Error writing svg to file"

\* lines 858-898: read the template, write the sheet if an output file is
\* given, return svg_output.  The handler of a failed write prints
\* str(svg_output_file), a name that is bound only once open() has succeeded.
Assemble ==
    /\ pc = "placed"
    /\ LET template_svg == IF template_file.readable THEN template_file.text
                           ELSE << >>
           read_error == IF template_file.readable THEN << >>
                         ELSE <<ReadError>>
           svg_sheet == SvgSheet(template_svg, bom_left_offset,
                                 bom_top_offset, scaling_factor)
       IN  CASE output_file = "None" ->
                  /\ pc' = "returned"
                  /\ console' = console \o read_error
                  /\ written' = written
                  /\ result' = <<SvgOutput(bom_width, bom_height)>>
             [] output_file = "writable" ->
                  /\ pc' = "returned"
                  /\ console' = console \o read_error
                  /\ written' = svg_sheet
                  /\ result' = <<SvgOutput(bom_width, bom_height)>>
             [] output_file = "write fails" ->
                  /\ pc' = "returned"
                  /\ console' = (console \o read_error) \o <<WriteError>>
                  /\ written' = << >>
                  /\ result' = <<SvgOutput(bom_width, bom_height)>>
             [] output_file = "open fails" ->
                  /\ pc' = "UnboundLocalError"
                  /\ console' = console \o read_error
                  /\ written' = written
                  /\ result' = result
    /\ UNCHANGED <<bom_width, bom_height, fitVars, fitOut, layoutVars,
                   runVars, dict_items, template_file, output_file,
                   sharpVars>>

\* the assembler after the fit calculator, on every template file and output
\* destination
AssembleInit ==
    /\ pc = "measured"
    /\ bom_width \in 1..MaxDim
    /\ bom_height \in 1..MaxDim
    /\ bom_left_offset \in 0..MaxOff
    /\ bom_top_offset \in 0..MaxOff
    /\ bom_min_right_offset = 0
    /\ bom_min_bottom_offset = 0
    /\ bom_table_svg_max_width = 0
    /\ bom_table_svg_max_height = 0
    /\ template_width = MaxPage
    /\ template_height = MaxPage
    /\ FitOutIdle
    /\ column_headers = << >>
    /\ column_width = 0
    /\ row_height = 0
    /\ diameter_list = << >>
    /\ column_offset = << >>
    /\ column_headers_svg = << >>
    /\ RunIdle
    /\ dict_items = << >>
    /\ template_file \in TemplateFiles
    /\ output_file \in OutputFiles
    /\ console = << >>
    /\ written = << >>
    /\ result = << >>
    /\ SharpIdle

AssembleNext == Fit \/ Assemble

AssembleSpec == AssembleInit /\ [][AssembleNext]_vars

\* page of the template and the offsets of the table on it
TemplateSizes == {<<50, 35>>}

Margins == {5}

Init ==
    /\ pc = "start"
    /\ column_headers \in RunColumnSpecs
    /\ column_width \in ColumnWidths
    /\ row_height \in RowHeights
    /\ mark_reinforcements_dict \in AllMarkDicts
    /\ DIA_WEIGHT_MAP \in WeightTables
    /\ \E t \in TemplateSizes : template_width = t[1] /\ template_height = t[2]
    /\ bom_left_offset \in Margins
    /\ bom_top_offset \in Margins
    /\ bom_min_right_offset \in Margins
    /\ bom_min_bottom_offset \in Margins
    /\ bom_table_svg_max_width = 0
    /\ bom_table_svg_max_height = 0
    /\ diameter_list = << >>
    /\ column_offset = << >>
    /\ column_headers_svg = << >>
    /\ dia_total_length_dict = << >>
    /\ y_offset = 0
    /\ bom_rows = << >>
    /\ closing_rectangle = << >>
    /\ bom_data_total_svg = << >>
    /\ bom_width = 0
    /\ bom_height = 0
    /\ FitOutIdle
    /\ dict_items = DictItems(mark_reinforcements_dict)
    /\ template_file = [readable |-> TRUE, text |-> Page]
    /\ output_file = "None"
    /\ console = << >>
    /\ written = << >>
    /\ result = << >>
    /\ SharpIdle

Next == Start \/ Row \/ Footer \/ Fit \/ Assemble

Spec == Init /\ [][Next]_vars

(* ====================== table building: properties ==================== *)
Built == pc \in {"measured", "placed"}

\* sum of the row totals of the body rows with index in I
RECURSIVE RowTotals(_)
RowTotals(I) ==
    IF I = {} THEN 0
    ELSE LET i == CHOOSE j \in I : TRUE
         IN  bom_rows[i].rebar_total_length + RowTotals(I \ {i})

RECURSIVE SumOfTotals(_)
SumOfTotals(D) ==
    IF D = {} THEN 0
    ELSE LET d == CHOOSE e \in D : TRUE
         IN  dia_total_length_dict[d] + SumOfTotals(D \ {d})

\* the total-length cells of the footer: its aggregate cells in its first row
FooterLengthCells ==
    SelectSeq(bom_data_total_svg,
              LAMBDA c : c.column = Aggregate /\ c.kind = "cell"
                         /\ c.y = closing_rectangle[1].y + row_height)

\* C6: after any number of rows the accumulator entry of every diameter is
\* the sum of the totals of exactly the rows of that diameter, every row's
\* diameter has an entry, the sum over all diameters is the sum over all
\* rows, and the footer shows the accumulator's values as they are.
C6_TotalsConserved ==
    /\ pc # "KeyError"
    /\ pc \in {"rows", "measured", "placed"} =>
        /\ DOMAIN dia_total_length_dict = Range(diameter_list)
        /\ \A i \in 1..Len(bom_rows) :
              bom_rows[i].diameter \in DOMAIN dia_total_length_dict
        /\ \A d \in DOMAIN dia_total_length_dict :
              dia_total_length_dict[d] =
                RowTotals({i \in 1..Len(bom_rows) : bom_rows[i].diameter = d})
        /\ SumOfTotals(DOMAIN dia_total_length_dict)
              = RowTotals(1..Len(bom_rows))
    /\ (Built /\ Aggregate \in DOMAIN column_headers) =>
        /\ Len(FooterLengthCells) = Len(diameter_list)
        /\ \A i \in 1..Len(diameter_list) :
              FooterLengthCells[i].data
                = Num(dia_total_length_dict[diameter_list[i]])

C6_Witness ==
    /\ Built
    /\ Aggregate \in DOMAIN column_headers
    /\ Len(bom_rows) = 2
    /\ bom_rows[1].diameter = bom_rows[2].diameter
    /\ bom_rows[1].rebar_total_length > 0
    /\ bom_rows[2].rebar_total_length > bom_rows[1].rebar_total_length
    /\ Len(FooterLengthCells) = 1
    /\ FooterLengthCells[1].data.value
         = bom_rows[1].rebar_total_length + bom_rows[2].rebar_total_length

\* the scenario of the documented example: the five columns in the order
\* Mark, RebarsCount, Diameter, RebarLength, RebarsTotalLength, two marks
\* with diameters 8 and 10, column width 10, row height 5
Scenario ==
    /\ column_headers = ColumnSpec(Ordinary, {}, 5)
    /\ DOMAIN mark_reinforcements_dict = {1, 2}
    /\ mark_reinforcements_dict[1][1].BaseRebar.Diameter = 8
    /\ mark_reinforcements_dict[2][1].BaseRebar.Diameter = 10
    /\ column_width = 10
    /\ row_height = 5

\* C7 as stated: height = header height (2 row-heights if the aggregate
\* column is visible, else 1) + rows * rowHeight + footerRows * rowHeight
\* (3 if the footer is rendered, else 0), rows = number of distinct marks;
\* 35 in the scenario.
C7_HeightAsStated ==
    Built =>
        /\ Len(bom_rows) = Cardinality(DOMAIN mark_reinforcements_dict)
        /\ bom_height =
             (IF Aggregate \in VisibleKeys(column_headers) THEN 2 ELSE 1)
                 * row_height
             + Len(bom_rows) * row_height
             + (IF bom_data_total_svg # << >> THEN 3 ELSE 0) * row_height
        /\ Scenario => bom_height = 35

\* C7 amended: height = body start (2 row-heights if the aggregate key is in
\* the column spec, whatever its order, else 1) + rows * rowHeight + one
\* row-height for the closing rectangle + 3 row-heights for the footer
\* block, rendered or not; rows = number of distinct marks; 40 in the
\* scenario.
C7_HeightWithClosingRow ==
    Built =>
        /\ Len(bom_rows) = Cardinality(DOMAIN mark_reinforcements_dict)
        /\ bom_height =
             (IF Aggregate \in DOMAIN column_headers THEN 2 ELSE 1)
                 * row_height
             + Len(bom_rows) * row_height
             + row_height
             + 3 * row_height
        /\ Scenario => bom_height = 40

C7_Witness ==
    /\ Built
    /\ Scenario
    /\ DIA_WEIGHT_MAP = << >>
    /\ Len(bom_rows) = 2
    /\ closing_rectangle[1].y = 20
    /\ bom_height = 40

\* C9: a column with order 0 has no header cell, no body cell in any row and
\* no footer cell, and is counted neither in the natural width nor in the
\* width of the closing rectangle.
HiddenKeys == DOMAIN column_headers \ VisibleKeys(column_headers)

CellsOf(cells, k) == {i \in 1..Len(cells) : cells[i].column = k}

C9_HiddenColumnExcluded ==
    Built =>
        /\ \A k \in HiddenKeys :
              /\ CellsOf(column_headers_svg, k) = {}
              /\ \A r \in 1..Len(bom_rows) : CellsOf(bom_rows[r].cells, k) = {}
              /\ CellsOf(bom_data_total_svg, k) = {}
        /\ bom_width = column_width
              * (Cardinality(DOMAIN column_headers \ HiddenKeys)
                 + Len(diameter_list) - 1)
        /\ closing_rectangle[1].width = bom_width

(* ====================== totals footer: properties ===================== *)
\* y of the first footer row: one row-height below the closing rectangle
FooterTop == closing_rectangle[1].y + row_height

\* the per-diameter cells of footer row r (1 total length, 2 weight,
\* 3 total weight), in document order
FooterRow(r) ==
    SelectSeq(bom_data_total_svg,
              LAMBDA c : c.column = Aggregate
                         /\ c.y = FooterTop + (r - 1) * row_height)

CaptionCells == SelectSeq(bom_data_total_svg, LAMBDA c : c.column = "caption")

\* the empty cells drawn for the columns after the aggregate column
PlaceholderCells == SelectSeq(bom_data_total_svg, LAMBDA c : c.column = "")

\* C11: when the aggregate column is not visible (its key is absent or its
\* order is 0) the totals group has no cell at all and every header cell
\* lies in one band of one row-height.
C11_NoFooterWithoutAggregate ==
    (Built /\ Aggregate \notin VisibleKeys(column_headers)) =>
        /\ bom_data_total_svg = << >>
        /\ \A i \in 1..Len(column_headers_svg) :
              /\ column_headers_svg[i].y = 0
              /\ column_headers_svg[i].height = row_height

\* C12: in both footer layouts every diameter has exactly one cell in each of
\* the three footer rows: a value cell in the total-length row, and in the
\* weight and total-weight rows a value cell when the diameter has a weight
\* and an empty bordered cell when it has none.
C12_FooterKeepsShape ==
    (Built /\ Aggregate \in DOMAIN column_headers) =>
        \A r \in 1..3 :
            /\ Len(FooterRow(r)) = Len(diameter_list)
            /\ \A i \in 1..Len(diameter_list) :
                  FooterRow(r)[i].kind =
                      IF r = 1 \/ diameter_list[i] \in DOMAIN DIA_WEIGHT_MAP
                      THEN "cell" ELSE "rect"
            /\ \A i, j \in 1..Len(diameter_list) :
                  i # j => FooterRow(r)[i].x # FooterRow(r)[j].x

\* C13: with the aggregate column at order 1 and N diameters, every footer
\* row has a per-diameter cell at x = i * column_width for i = 0..N-1, the
\* three captions start at N * column_width and are as wide as all visible
\* non-diameter columns together, and values plus captions span exactly the
\* table's width.
C13_LeftmostFooter ==
    (Built /\ Aggregate \in DOMAIN column_headers
           /\ Order(column_headers, Aggregate) = 1) =>
        LET N == Len(diameter_list)
            ordinary == VisibleKeys(column_headers) \ {Aggregate}
        IN  /\ \A r \in 1..3 : \A i \in 1..N :
                  \E j \in 1..Len(FooterRow(r)) :
                      FooterRow(r)[j].x = (i - 1) * column_width
            /\ Len(CaptionCells) = 3
            /\ \A j \in 1..3 :
                  /\ CaptionCells[j].x = N * column_width
                  /\ CaptionCells[j].y = FooterTop + (j - 1) * row_height
                  /\ CaptionCells[j].width
                       = column_width * Cardinality(ordinary)
            /\ N * column_width + column_width * Cardinality(ordinary)
                 = bom_width

\* C14: with the aggregate column visible at an order above 1, the captions
\* start at x = 0 and are as wide as the aggregate column's offset, the
\* per-diameter cells start at that offset one column width apart, and the
\* empty cells after them are, in each of the three rows, exactly one per
\* visible column of higher order at that column's own offset, none of them
\* beyond the table's width.
C14_NotLeftmostFooter ==
    (Built /\ Aggregate \in VisibleKeys(column_headers)
           /\ Order(column_headers, Aggregate) > 1) =>
        LET off == getColumnOffset(column_headers, diameter_list, Aggregate,
                                   column_width)
            after == {k \in VisibleKeys(column_headers) :
                         Order(column_headers, k)
                           > Order(column_headers, Aggregate)}
        IN  /\ Len(CaptionCells) = 3
            /\ \A j \in 1..3 :
                  CaptionCells[j].x = 0 /\ CaptionCells[j].width = off
            /\ \A r \in 1..3 :
                  /\ Len(FooterRow(r)) = Len(diameter_list)
                  /\ \A i \in 1..Len(diameter_list) :
                        FooterRow(r)[i].x = off + (i - 1) * column_width
                  /\ {PlaceholderCells[j].x :
                        j \in {n \in 1..Len(PlaceholderCells) :
                                 PlaceholderCells[n].y
                                   = FooterTop + (r - 1) * row_height}}
                       = {getColumnOffset(column_headers, diameter_list, k,
                                          column_width) : k \in after}
            /\ Len(PlaceholderCells) = 3 * Cardinality(after)
            /\ \A j \in 1..Len(PlaceholderCells) :
                  PlaceholderCells[j].x + column_width <= bom_width

(* ====================== document assembly: properties ================= *)
\* C15: whatever the template file (readable or not) and the output
\* destination (writable, write failing, open failing) do, the run ends by
\* returning the in-memory table markup with no exception raised, every
\* failure is reported on the console, and with an unreadable template and a
\* writable destination the file holds the standalone table markup.
C15_FileFailuresNeverAbort ==
    pc \in {"returned", "UnboundLocalError"} =>
        /\ pc = "returned"
        /\ result = <<SvgOutput(bom_width, bom_height)>>
        /\ ~template_file.readable
              => \E i \in 1..Len(console) : console[i] = ReadError
        /\ output_file \in {"open fails", "write fails"}
              => \E i \in 1..Len(console) : console[i] = WriteError
        /\ (~template_file.readable /\ output_file = "writable")
              => written = <<Markup("g", TRUE, << >>, << >>)>>

(* ========================= body rows: properties ====================== *)
\* bottom edge of the header band as drawn by getColumnHeadersSVG
HeaderBottom ==
    LET ends == {column_headers_svg[i].y + column_headers_svg[i].height :
                    i \in 1..Len(column_headers_svg)}
    IN  IF ends = {} THEN 0 ELSE CHOOSE e \in ends : \A f \in ends : f <= e

HasRows == pc \in {"rows", "measured", "placed", "returned"}

\* C17: the body has one row per distinct mark, in ascending mark order; the
\* k-th row (from 0) and all its cells lie at y = bodyStart + k * row_height
\* and are one row-height tall, where bodyStart is the bottom of the header
\* band actually drawn (2 row-heights when the aggregate column is visible,
\* 1 otherwise).
C17_RowsStackedBelowHeader ==
    Built =>
        LET marks == Ascending(DOMAIN mark_reinforcements_dict)
        IN  /\ HeaderBottom
                 = (IF Aggregate \in VisibleKeys(column_headers) THEN 2 ELSE 1)
                     * row_height
            /\ Len(bom_rows) = Len(marks)
            /\ \A k \in 1..Len(bom_rows) :
                  /\ bom_rows[k].mark = marks[k]
                  /\ bom_rows[k].y = HeaderBottom + (k - 1) * row_height
                  /\ \A i \in 1..Len(bom_rows[k].cells) :
                        /\ bom_rows[k].cells[i].y = bom_rows[k].y
                        /\ bom_rows[k].cells[i].height = row_height

\* the reinforcements of the mark of body row r
GroupOfRow(r) == mark_reinforcements_dict[bom_rows[r].mark]

\* sum over the rows in I of the multiplicity-weighted authored length
RECURSIVE ExpectedTotals(_)
ExpectedTotals(I) ==
    IF I = {} THEN 0
    ELSE LET r == CHOOSE j \in I : TRUE
         IN  RebarTotalLength(GroupOfRow(r), GroupOfRow(r)[1].BaseRebar.Length)
             + ExpectedTotals(I \ {r})

\* the aggregate sub-cells of body row r, in document order
SubCells(r) ==
    SelectSeq(bom_rows[r].cells, LAMBDA c : c.column = Aggregate)

\* C19: whenever the aggregate column is shown, the total of every body row,
\* which its aggregate cell shows and which is added to the accumulator, is
\* the sum over the mark's reinforcements of Amount times the authored
\* length of the bar, whether or not RebarLength is in the column spec.
C19_RowTotalIsAmountTimesLength ==
    (HasRows /\ Aggregate \in VisibleKeys(column_headers)) =>
        /\ \A r \in 1..Len(bom_rows) :
              /\ bom_rows[r].rebar_total_length = ExpectedTotals({r})
              /\ \E i \in 1..Len(SubCells(r)) :
                    SubCells(r)[i].data = Num(ExpectedTotals({r}))
        /\ \A d \in DOMAIN dia_total_length_dict :
              dia_total_length_dict[d] =
                ExpectedTotals({r \in 1..Len(bom_rows) :
                                   bom_rows[r].diameter = d})

\* C20: whenever the aggregate column is shown, every body row has exactly
\* |DiameterSet| aggregate sub-cells, the i-th (from 0) at the aggregate
\* column's offset + i * column_width; the one at the index of the row's
\* diameter carries the row total, every other one is an empty bordered
\* rectangle.
C20_AggregateSubCells ==
    (HasRows /\ Aggregate \in VisibleKeys(column_headers)) =>
        \A r \in 1..Len(bom_rows) :
            LET off == getColumnOffset(column_headers, diameter_list,
                                       Aggregate, column_width)
            IN  /\ Len(SubCells(r)) = Len(diameter_list)
                /\ Cardinality({i \in 1..Len(SubCells(r)) :
                                   SubCells(r)[i].kind = "cell"}) = 1
                /\ \A i \in 1..Len(diameter_list) :
                      SubCells(r)[i] =
                        IF diameter_list[i] = bom_rows[r].diameter
                        THEN DataCell(Aggregate,
                                      Num(bom_rows[r].rebar_total_length),
                                      off + (i - 1) * column_width,
                                      bom_rows[r].y, column_width, row_height)
                        ELSE Rectangle(Aggregate,
                                       off + (i - 1) * column_width,
                                       bom_rows[r].y, column_width, row_height)

C20_Witness ==
    /\ Built
    /\ Aggregate \in VisibleKeys(column_headers)
    /\ Order(column_headers, Aggregate) = 3
    /\ diameter_list = <<8, 10>>
    /\ Len(bom_rows) = 2
    /\ bom_rows[2].diameter = 10
    /\ bom_rows[2].rebar_total_length = 9
    /\ SubCells(2)[1].kind = "rect"
    /\ SubCells(2)[1].x = 2 * column_width
    /\ SubCells(2)[2].kind = "cell"
    /\ SubCells(2)[2].x = 3 * column_width
    /\ SubCells(2)[2].data = Num(9)

(* ================== header and body offsets: properties =============== *)
\* x of the header cell of column k: its cell in the top band
HeaderX(k) ==
    LET i == CHOOSE j \in 1..Len(column_headers_svg) :
                 /\ column_headers_svg[j].column = k
                 /\ column_headers_svg[j].y = 0
    IN  column_headers_svg[i].x

\* C18: for every column spec (non-zero orders pairwise distinct, also with
\* gaps between them) and every DiameterSet, every visible column has a
\* header cell, and its x is the offset getColumnOffset gives the column's
\* body cells.
C18_HeaderMatchesBodyOffset ==
    pc = "resolved" =>
        \A k \in VisibleKeys(column_headers) :
            /\ \E j \in 1..Len(column_headers_svg) :
                  /\ column_headers_svg[j].column = k
                  /\ column_headers_svg[j].y = 0
            /\ HeaderX(k) = column_offset[k]

(* ======================= getRebarSharpEdgedLength ===================== *)
\* most edges of a wire's shape, and most primitives of a sketch
MaxEdges == 3

EdgeLengths == {1, 2}

FilletRadii == {0, 1}

AuthoredLengths == {3}

EdgeLists == UNION {[1..n -> EdgeLengths] : n \in 0..MaxEdges}

\* every base: wires without a FilletRadius attribute and with a zero or
\* positive one, open and closed; sketches; one object of another kind
Bases ==
    {Base("DWire", l, FALSE, 0, c, e, << >>) :
        l \in AuthoredLengths, c \in BOOLEAN, e \in EdgeLists}
    \cup {Base("DWire", l, TRUE, r, c, e, << >>) :
        l \in AuthoredLengths, r \in FilletRadii, c \in BOOLEAN,
        e \in EdgeLists}
    \cup {Base("Sketch", 0, FALSE, 0, FALSE, << >>, g) : g \in EdgeLists}
    \cup {NoBase}

\* edges[::2]: every second element, starting with the first
RECURSIVE EverySecond(_)
EverySecond(edges) ==
    IF Len(edges) = 0 THEN << >>
    ELSE IF Len(edges) = 1 THEN edges
    ELSE <<Head(edges)>> \o EverySecond(Tail(Tail(edges)))

\* the loops "total += element.Length", from 0
RECURSIVE SumLengths(_)
SumLengths(seq) ==
    IF seq = << >> THEN 0 ELSE Head(seq) + SumLengths(Tail(seq))

\* Quantity(str(x) + "mm"): the number x printed and read back as millimetres
Millimetres(x) == Frac(x, 1)

CannotCalculate == "Cannot calculate rebar length from its base object"

getRebarSharpEdgedLength_alledges(b) ==
    IF b.kind = "DWire"
    THEN IF ~b.hasFilletRadius \/ b.FilletRadius = 0
         THEN Frac(b.Length, 1)
         ELSE LET corners == IF b.Closed THEN Frac(Len(b.Edges), 2)
                             ELSE Frac(Len(b.Edges) - 1, 2)
                  extension_length == FracScale(2 * b.FilletRadius, corners)
              IN  FracAdd(Millimetres(SumLengths(b.Edges)), extension_length)
    ELSE IF b.kind = "Sketch" THEN Millimetres(SumLengths(b.Geometry))
    ELSE Frac(0, 1)

\* getRebarSharpEdgedLength(rebar), b = rebar.Base; len(edges) / 2 is a true
\* division
getRebarSharpEdgedLength(b) ==
    IF b.kind = "DWire"
    THEN IF ~b.hasFilletRadius \/ b.FilletRadius = 0
         THEN Frac(b.Length, 1)
         ELSE LET corners == IF b.Closed THEN Frac(Len(b.Edges), 2)
                             ELSE Frac(Len(b.Edges) - 1, 2)
                  extension_length == FracScale(2 * b.FilletRadius, corners)
                  rebar_straight_length == SumLengths(EverySecond(b.Edges))
              IN  FracAdd(Millimetres(rebar_straight_length), extension_length)
    ELSE IF b.kind = "Sketch" THEN Millimetres(SumLengths(b.Geometry))
    ELSE Frac(0, 1)

\* getRebarSharpEdgedLength on every base in the bounds
SharpInit ==
    /\ pc = "sharp"
    /\ base \in Bases
    /\ rebar_sharp_edged_length = NoFrac
    /\ bom_width = 0 /\ bom_height = 0
    /\ bom_left_offset = 0 /\ bom_top_offset = 0
    /\ bom_min_right_offset = 0 /\ bom_min_bottom_offset = 0
    /\ bom_table_svg_max_width = 0 /\ bom_table_svg_max_height = 0
    /\ template_width = 0 /\ template_height = 0
    /\ FitOutIdle
    /\ column_headers = << >>
    /\ column_width = 0
    /\ row_height = 0
    /\ diameter_list = << >>
    /\ column_offset = << >>
    /\ column_headers_svg = << >>
    /\ RunIdle
    /\ dict_items = << >>
    /\ FilesIdle

\* the call of line 421, with the PrintError of the last branch
SharpEdgedLength ==
    /\ pc = "sharp"
    /\ pc' = "sharp returned"
    /\ rebar_sharp_edged_length' = getRebarSharpEdgedLength(base)
    /\ console' = IF base.kind \in {"DWire", "Sketch"} THEN console
                  ELSE Append(console, CannotCalculate)
    /\ UNCHANGED <<bom_width, bom_height, fitVars, fitOut, layoutVars,
                   runVars, dict_items, template_file, output_file, written,
                   result, base>>

SharpNext == SharpEdgedLength

SharpSpec == SharpInit /\ [][SharpNext]_vars

(* ================= getRebarSharpEdgedLength: properties =============== *)
\* sum of the lengths at the odd positions of a list of edges
OddSum(edges) ==
    LET odd == {i \in 1..Len(edges) : i % 2 = 1}
        S[I \in SUBSET odd] ==
            IF I = {} THEN 0
            ELSE LET i == CHOOSE j \in I : TRUE
                 IN  edges[i] + S[I \ {i}]
    IN  S[odd]

RECURSIVE TotalOf(_, _)
TotalOf(seq, n) == IF n = 0 THEN 0 ELSE seq[n] + TotalOf(seq, n - 1)

\* C21: a wire without a fillet radius, or with radius zero, gives its
\* authored length unmodified; a wire with a radius gives the sum of every
\* second edge from the first plus 2 * corners * radius, corners = edges / 2
\* when closed and (edges - 1) / 2 when open; a sketch gives the sum of the
\* lengths of its primitives; any other base gives zero and an error message
\* on the console, and only then is a message printed.
C21_SharpEdgedLength ==
    pc = "sharp returned" =>
        /\ (base.kind = "DWire"
              /\ (~base.hasFilletRadius \/ base.FilletRadius = 0))
             => rebar_sharp_edged_length = Frac(base.Length, 1)
        /\ (base.kind = "DWire" /\ base.hasFilletRadius
              /\ base.FilletRadius # 0)
             => 2 * rebar_sharp_edged_length.num =
                  rebar_sharp_edged_length.den
                    * (2 * OddSum(base.Edges)
                       + 2 * base.FilletRadius
                           * (IF base.Closed THEN Len(base.Edges)
                              ELSE Len(base.Edges) - 1))
        /\ base.kind = "Sketch"
             => FracEq(rebar_sharp_edged_length,
                       Frac(TotalOf(base.Geometry, Len(base.Geometry)), 1))
        /\ base.kind \notin {"DWire", "Sketch"}
             => /\ FracEq(rebar_sharp_edged_length, Frac(0, 1))
                /\ console = <<CannotCalculate>>
        /\ base.kind \in {"DWire", "Sketch"} => console = << >>

\* an open wire of two straight edges of length 2 around one fillet arc of
\* length 1, radius 1: 2 + 2 straight, one corner, 4 + 2 * 1 * 1 = 6
C21_Witness ==
    /\ pc = "sharp returned"
    /\ base.kind = "DWire"
    /\ base.hasFilletRadius
    /\ base.FilletRadius = 1
    /\ ~base.Closed
    /\ base.Edges = <<2, 1, 2>>
    /\ FracEq(rebar_sharp_edged_length, Frac(6, 1))

====
